---- MODULE Spec2Model ----
(***************************************************************************)
(* Model of src/vmm/src/guest_config/templates/x86_64.rs: the CPU template *)
(* resolver (get_cpu_template), the numeric text parser                    *)
(* (deserialize_u32_from_str), the wildcard bitmap codec                   *)
(* (deserialize_u64_bitmap, serialize_u32_bitmap, serialize_u64_bitmap),   *)
(* RegisterValueFilter::apply and the serde schema of CustomCpuTemplate.   *)
(*                                                                         *)
(* Representation.  A Rust String is a sequence of characters; a character *)
(* is a one-character TLA+ string, except the two non-ASCII characters     *)
(* "U+00E9" (2 bytes in UTF-8) and "U+20AC" (3 bytes).  A u64 is the set   *)
(* of its set bit positions (a subset of 0..63), a u32 is a pair           *)
(* <<hi, lo>> of 16-bit halves: both keep the real widths, which do not    *)
(* fit TLC's integers.  A Result is a record with kind "Ok" or "Err"; a    *)
(* call that unwinds is the record with kind "Panic".                      *)
(***************************************************************************)
EXTENDS Integers, Sequences, FiniteSets, TLC

\* Longest text enumerated exhaustively over Alphabet.
MaxLen == 3

VARIABLES op, arg, ret, origin, queries

vars == <<op, arg, ret, origin, queries>>

----------------------------------------------------------------------------
(* Results *)

Ok(v) == [kind |-> "Ok", val |-> v]

Err(m) == [kind |-> "Err", msg |-> m]

Panic(m) == [kind |-> "Panic", msg |-> m]

IsOk(r) == r.kind = "Ok"

IsErr(r) == r.kind = "Err"

IsPanic(r) == r.kind = "Panic"

----------------------------------------------------------------------------
(* Strings *)

\* Characters of the texts enumerated exhaustively.
Alphabet == {"0", "1", "b", "x", "+", "f", "k", "U+00E9", "U+20AC"}

\* char::len_utf8
len_utf8(c) == CASE c = "U+00E9" -> 2 [] c = "U+20AC" -> 3 [] OTHER -> 1

RECURSIVE byte_offset(_, _)
\* Byte offset of the end of the k-th character of s (0 for k = 0).
byte_offset(s, k) == IF k = 0 THEN 0 ELSE byte_offset(s, k - 1) + len_utf8(s[k])

\* str::len: the length in bytes.
len(s) == byte_offset(s, Len(s))

\* str::is_char_boundary
is_char_boundary(s, i) == \E k \in 0..Len(s) : byte_offset(s, k) = i

\* Number of characters of s that end at or before byte i.
chars_before(s, i) == CHOOSE k \in 0..Len(s) : byte_offset(s, k) = i

\* str::starts_with
starts_with(s, p) == Len(s) >= Len(p) /\ SubSeq(s, 1, Len(p)) = p

\* str::replace(from: char, to: &str)
replace(s, from, to) == [i \in 1..Len(s) |-> IF s[i] = from THEN to ELSE s[i]]

StringsUpTo(n) == UNION {[1..k -> Alphabet] : k \in 0..n}

----------------------------------------------------------------------------
(* Integers *)

\* u64::BITS, u32::BITS
U64_BITS == 64

U32_BITS == 32

\* One 16-bit half of a u32.
HalfBase == 65536

\* char::to_digit(radix): the digit's value, or -1 when c is no digit of radix.
to_digit(c, radix) ==
    LET v == CASE c = "0" -> 0 [] c = "1" -> 1 [] c = "2" -> 2 [] c = "3" -> 3
               [] c = "4" -> 4 [] c = "5" -> 5 [] c = "6" -> 6 [] c = "7" -> 7
               [] c = "8" -> 8 [] c = "9" -> 9
               [] c \in {"a", "A"} -> 10 [] c \in {"b", "B"} -> 11
               [] c \in {"c", "C"} -> 12 [] c \in {"d", "D"} -> 13
               [] c \in {"e", "E"} -> 14 [] c \in {"f", "F"} -> 15
               [] OTHER -> -1
    IN  IF v < radix THEN v ELSE -1

\* The sign handling shared by uN::from_str_radix: Empty on "", InvalidDigit
\* on a lone sign, one leading "+" dropped; "-" is not a sign of an unsigned.
strip_sign(src) ==
    IF Len(src) = 0 THEN Err("Empty")
    ELSE IF src[1] \in {"+", "-"} /\ Len(src) = 1 THEN Err("InvalidDigit")
    ELSE IF src[1] = "+" THEN Ok(Tail(src))
    ELSE Ok(src)

RECURSIVE u64_digits(_, _, _, _)
\* The digit loop of u64::from_str_radix: result = result * radix + digit,
\* both checked.  Only radix 2 is used on u64, where result * 2 overflows
\* exactly when bit 63 is set.
u64_digits(digits, radix, i, result) ==
    IF i > Len(digits) THEN Ok(result)
    ELSE IF to_digit(digits[i], radix) < 0 THEN Err("InvalidDigit")
    ELSE IF (U64_BITS - 1) \in result THEN Err("PosOverflow")
    ELSE u64_digits(digits, radix, i + 1,
                    {b + 1 : b \in result}
                        \cup (IF to_digit(digits[i], radix) = 1 THEN {0} ELSE {}))

\* u64::from_str_radix(src, 2)
u64_from_str_radix(src, radix) ==
    LET s == strip_sign(src)
    IN  IF IsErr(s) THEN s ELSE u64_digits(s.val, radix, 1, {})

RECURSIVE u32_digits(_, _, _, _)
\* The digit loop of u32::from_str_radix on <<hi, lo>>.
u32_digits(digits, radix, i, result) ==
    IF i > Len(digits) THEN Ok(result)
    ELSE LET x  == to_digit(digits[i], radix)
             lo == result[2] * radix + x
             hi == result[1] * radix + (lo \div HalfBase)
         IN  IF x < 0 THEN Err("InvalidDigit")
             ELSE IF hi >= HalfBase THEN Err("PosOverflow")
             ELSE u32_digits(digits, radix, i + 1, <<hi, lo % HalfBase>>)

\* u32::from_str_radix(src, radix)
u32_from_str_radix(src, radix) ==
    LET s == strip_sign(src)
    IN  IF IsErr(s) THEN s ELSE u32_digits(s.val, radix, 1, <<0, 0>>)

\* u32::from_str(src)
u32_from_str(src) == u32_from_str_radix(src, 10)

\* Highest set bit of a non-zero u64.
top_bit(v) == CHOOSE b \in v : \A c \in v : c <= b

\* format!("{:0<width>b}", v): the binary digits of v, most significant first,
\* padded with zeros on the left to at least width characters.
format_0b(v, width) ==
    LET n == IF v = {} THEN 1 ELSE top_bit(v) + 1
        w == IF n < width THEN width ELSE n
    IN  [i \in 1..w |-> IF (w - i) \in v THEN "1" ELSE "0"]

----------------------------------------------------------------------------
(* RegisterValueFilter *)

RegisterValueFilter(f, v) == [filter |-> f, value |-> v]

\* Mutant: the bits under the filter are kept where they are cleared.
apply_filter_kept(self, value) == (value \cap self.filter) \cup self.value

\* Mutant: the value is or-ed in without clearing the bits under the filter.
apply_not_cleared(self, value) == value \cup self.value

\* RegisterValueFilter::apply
apply(self, value) == (value \ self.filter) \cup self.value

----------------------------------------------------------------------------
(* JSON values handed to the field deserializers *)

JsonString(s) == [type |-> "string", str |-> s, num |-> 0]

JsonNumber(n) == [type |-> "number", str |-> <<>>, num |-> n]

\* String::deserialize(deserializer)
String_deserialize(json) ==
    IF json.type = "string" THEN Ok(json.str)
    ELSE Err([fmt |-> "invalid type: expected a string", text |-> <<>>, err |-> "type"])

----------------------------------------------------------------------------
(* Bitmap codec *)

BitmapError(bitmap_str, err) ==
    Err([fmt |-> "Failed to parse string [{}] as a bitmap - {:?}",
         text |-> bitmap_str, err |-> err])

\* Mutant: the filter string is built without turning each '0' into '1', so a
\* bit pinned to 0 is taken for a wildcard.
deserialize_u64_bitmap_zero_unpinned(deserializer) ==
    LET d          == String_deserialize(deserializer)
        bitmap_str == IF starts_with(d.val, <<"0", "b">>)
                      THEN SubSeq(d.val, 3, Len(d.val)) ELSE d.val
        filter_str == replace(bitmap_str, "x", "0")
        value_str  == replace(bitmap_str, "x", "0")
        filter     == u64_from_str_radix(filter_str, 2)
        value      == u64_from_str_radix(value_str, 2)
    IN  IF IsErr(d) THEN d
        ELSE IF IsErr(filter) THEN BitmapError(bitmap_str, filter.msg)
        ELSE IF IsErr(value) THEN BitmapError(bitmap_str, value.msg)
        ELSE Ok(RegisterValueFilter(filter.val, value.val))

deserialize_u64_bitmap(deserializer) ==
    LET d          == String_deserialize(deserializer)
        bitmap_str == IF starts_with(d.val, <<"0", "b">>)
                      THEN SubSeq(d.val, 3, Len(d.val)) ELSE d.val
        filter_str == replace(replace(bitmap_str, "0", "1"), "x", "0")
        value_str  == replace(bitmap_str, "x", "0")
        filter     == u64_from_str_radix(filter_str, 2)
        value      == u64_from_str_radix(value_str, 2)
    IN  IF IsErr(d) THEN d
        ELSE IF IsErr(filter) THEN BitmapError(bitmap_str, filter.msg)
        ELSE IF IsErr(value) THEN BitmapError(bitmap_str, value.msg)
        ELSE Ok(RegisterValueFilter(filter.val, value.val))

\* One character per character of filter_str; value_str.as_bytes()[idx] is
\* out of bounds, and unwinds, when filter_str is longer than value_str and
\* has a '1' beyond its length.
serialize_u32_bitmap(bitmap) ==
    LET value_str  == format_0b(bitmap.value, U32_BITS)
        filter_str == format_0b(bitmap.filter, U32_BITS)
    IN  IF \E idx \in 1..Len(filter_str) :
                filter_str[idx] = "1" /\ idx > Len(value_str)
        THEN Panic("index out of bounds")
        ELSE Ok(<<"0", "b">> \o
                [idx \in 1..Len(filter_str) |->
                    IF filter_str[idx] = "1" THEN value_str[idx] ELSE "x"])

serialize_u64_bitmap(bitmap) ==
    LET value_str  == format_0b(bitmap.value, U64_BITS)
        filter_str == format_0b(bitmap.filter, U64_BITS)
    IN  IF \E idx \in 1..Len(filter_str) :
                filter_str[idx] = "1" /\ idx > Len(value_str)
        THEN Panic("index out of bounds")
        ELSE Ok(<<"0", "b">> \o
                [idx \in 1..Len(filter_str) |->
                    IF filter_str[idx] = "1" THEN value_str[idx] ELSE "x"])

----------------------------------------------------------------------------
(* Numeric text parser *)

NumberError(fmt, number_str, err) ==
    Err([fmt |-> fmt, text |-> number_str, err |-> err])

deserialize_u32_from_str(deserializer) ==
    LET d          == String_deserialize(deserializer)
        number_str == d.val
        prefix     == SubSeq(number_str, 1, chars_before(number_str, 2))
        rest       == SubSeq(number_str, 3, Len(number_str))
        parsed     == IF prefix = <<"0", "b">> THEN u32_from_str_radix(rest, 2)
                      ELSE IF prefix = <<"0", "x">> THEN u32_from_str_radix(rest, 16)
                      ELSE u32_from_str(number_str)
        decimal    == u32_from_str(number_str)
    IN  IF IsErr(d) THEN d
        ELSE IF len(number_str) > 2
        THEN IF ~is_char_boundary(number_str, 2)
             THEN Panic("byte index 2 is not a char boundary")
             ELSE IF IsErr(parsed)
             THEN NumberError(
                    "Failed to parse string [{}] as a number for CPU template - {:?}",
                    number_str, parsed.msg)
             ELSE parsed
        ELSE IF IsErr(decimal)
        THEN NumberError(
               "Failed to parse string [{}] as a decimal number for CPU template - {:?}",
               number_str, decimal.msg)
        ELSE decimal

----------------------------------------------------------------------------
(* Template resolver *)

VENDOR_ID_INTEL == "GenuineIntel"

VENDOR_ID_AMD == "AuthenticAMD"

\* CustomCpuTemplate::default()
CustomCpuTemplate_default == [cpuid_modifiers |-> <<>>, msr_modifiers |-> <<>>]

\* The predefined templates of static_cpu_templates: their contents live
\* outside this file and are opaque here.
c3 == [predefined |-> "c3::c3()"]

t2 == [predefined |-> "t2::t2()"]

t2s == [predefined |-> "t2s::t2s()"]

t2cl == [predefined |-> "t2cl::t2cl()"]

t2a == [predefined |-> "t2a::t2a()"]

\* Cow<CustomCpuTemplate>
Owned(t) == [cow |-> "Owned", template |-> t]

Borrowed(t) == [cow |-> "Borrowed", template |-> t]

\* GetCpuTemplateError
GetCpuVendor(cause) == [error |-> "GetCpuVendor", detail |-> cause]

CpuVendorMismatched == [error |-> "CpuVendorMismatched", detail |-> "-"]

InvalidCpuModel == [error |-> "InvalidCpuModel", detail |-> "-"]

InvalidStaticCpuTemplate(t) == [error |-> "InvalidStaticCpuTemplate", detail |-> t]

\* The outcome of a resolution and the host queries it made, in order.
Resolved(r, q) == [ret |-> r, queries |-> q]

\* Option<CpuTemplateType>
NoTemplate ==
    [tag |-> "None", static |-> "-", custom |-> CustomCpuTemplate_default]

Custom(t) == [tag |-> "Custom", static |-> "-", custom |-> t]

Static(t) == [tag |-> "Static", static |-> t, custom |-> CustomCpuTemplate_default]

\* A host: host.vendor is the result of get_vendor_id_from_host(),
\* host.cascade_lake that of CpuModel::get_cpu_model().is_at_least_cascade_lake().
\* The host queries a resolution makes:
vendor_query == <<"get_vendor_id_from_host">>

model_query == <<"get_vendor_id_from_host", "get_cpu_model">>

\* The arms of `match template`, entered with the vendor the host reported.
static_C3(vendor_id, host) ==
    IF vendor_id # VENDOR_ID_INTEL
    THEN Resolved(Err(CpuVendorMismatched), vendor_query)
    ELSE Resolved(Ok(Owned(c3)), vendor_query)

static_T2(vendor_id, host) ==
    IF vendor_id # VENDOR_ID_INTEL
    THEN Resolved(Err(CpuVendorMismatched), vendor_query)
    ELSE Resolved(Ok(Owned(t2)), vendor_query)

static_T2S(vendor_id, host) ==
    IF vendor_id # VENDOR_ID_INTEL
    THEN Resolved(Err(CpuVendorMismatched), vendor_query)
    ELSE Resolved(Ok(Owned(t2s)), vendor_query)

\* Mutant: the CPU model is checked before the vendor.
static_T2CL_model_first(vendor_id, host) ==
    IF ~host.cascade_lake
    THEN Resolved(Err(InvalidCpuModel), model_query)
    ELSE IF vendor_id # VENDOR_ID_INTEL
    THEN Resolved(Err(CpuVendorMismatched), model_query)
    ELSE Resolved(Ok(Owned(t2cl)), model_query)

static_T2CL(vendor_id, host) ==
    IF vendor_id # VENDOR_ID_INTEL
    THEN Resolved(Err(CpuVendorMismatched), vendor_query)
    ELSE IF ~host.cascade_lake
    THEN Resolved(Err(InvalidCpuModel), model_query)
    ELSE Resolved(Ok(Owned(t2cl)), model_query)

\* Mutant: T2A is gated on the Intel vendor id like the other templates.
static_T2A_intel(vendor_id, host) ==
    IF vendor_id # VENDOR_ID_INTEL
    THEN Resolved(Err(CpuVendorMismatched), vendor_query)
    ELSE Resolved(Ok(Owned(t2a)), vendor_query)

static_T2A(vendor_id, host) ==
    IF vendor_id # VENDOR_ID_AMD
    THEN Resolved(Err(CpuVendorMismatched), vendor_query)
    ELSE Resolved(Ok(Owned(t2a)), vendor_query)

\* Mutant: the legacy sentinel is resolved like "no template".
static_None_as_default(vendor_id, host) ==
    Resolved(Ok(Owned(CustomCpuTemplate_default)), vendor_query)

static_None(vendor_id, host) ==
    Resolved(Err(InvalidStaticCpuTemplate("None")), vendor_query)

\* Mutant: the host vendor is queried before the selector is matched.
get_cpu_template_query_first(self, host) ==
    IF IsErr(host.vendor)
    THEN Resolved(Err(GetCpuVendor(host.vendor.msg)), vendor_query)
    ELSE IF self.tag = "None"
    THEN Resolved(Ok(Owned(CustomCpuTemplate_default)), vendor_query)
    ELSE IF self.tag = "Custom"
    THEN Resolved(Ok(Borrowed(self.custom)), vendor_query)
    ELSE CASE self.static = "C3" -> static_C3(host.vendor.val, host)
           [] self.static = "T2" -> static_T2(host.vendor.val, host)
           [] self.static = "T2S" -> static_T2S(host.vendor.val, host)
           [] self.static = "T2CL" -> static_T2CL(host.vendor.val, host)
           [] self.static = "T2A" -> static_T2A(host.vendor.val, host)
           [] self.static = "None" -> static_None(host.vendor.val, host)

get_cpu_template(self, host) ==
    IF self.tag = "None"
    THEN Resolved(Ok(Owned(CustomCpuTemplate_default)), <<>>)
    ELSE IF self.tag = "Custom"
    THEN Resolved(Ok(Borrowed(self.custom)), <<>>)
    ELSE IF IsErr(host.vendor)
    THEN Resolved(Err(GetCpuVendor(host.vendor.msg)), vendor_query)
    ELSE CASE self.static = "C3" -> static_C3(host.vendor.val, host)
           [] self.static = "T2" -> static_T2(host.vendor.val, host)
           [] self.static = "T2S" -> static_T2S(host.vendor.val, host)
           [] self.static = "T2CL" -> static_T2CL(host.vendor.val, host)
           [] self.static = "T2A" -> static_T2A(host.vendor.val, host)
           [] self.static = "None" -> static_None(host.vendor.val, host)

----------------------------------------------------------------------------
(* Schema: serde_json::from_str::<CustomCpuTemplate>                       *)
(*                                                                         *)
(* A JSON object is a record of the values of its recognized fields, in    *)
(* the order of the struct, and the set "unknown" of the other field names *)
(* it carries (after the recognized ones).  A list field of the top-level  *)
(* object is [present |-> FALSE] when the document leaves it out.          *)

Absent == [present |-> FALSE, items |-> <<>>]

Present(items) == [present |-> TRUE, items |-> items]

SchemaError(m) == Err([fmt |-> m, text |-> <<>>, err |-> "schema"])

\* #[serde(deny_unknown_fields)] is on CustomCpuTemplate alone; the derived
\* Deserialize of the other structs skips a field it does not know.
deny_unknown_fields(struct) == struct = "CustomCpuTemplate"

\* The end of a derived visitor: the unknown fields are reached after the
\* recognized ones, and refused only under deny_unknown_fields.
finish_struct(struct, object, value) ==
    IF deny_unknown_fields(struct) /\ object.unknown # {}
    THEN SchemaError("unknown field")
    ELSE Ok(value)

\* The first failure of a sequence of results, or Ok of their values.
collect(results) ==
    IF \E i \in 1..Len(results) : ~IsOk(results[i])
    THEN results[CHOOSE i \in 1..Len(results) :
                    ~IsOk(results[i]) /\ \A j \in 1..(i - 1) : IsOk(results[j])]
    ELSE Ok([i \in 1..Len(results) |-> results[i].val])

deserialize_kvm_cpuid_flags(deserializer) ==
    IF deserializer.type = "number" THEN Ok(deserializer.num)
    ELSE SchemaError("invalid type: expected u32")

deserialize_cpuid_register(deserializer) ==
    LET d == String_deserialize(deserializer)
        cpuid_register_str == d.val
    IN  IF IsErr(d) THEN d
        ELSE CASE cpuid_register_str = <<"e", "a", "x">> -> Ok("Eax")
               [] cpuid_register_str = <<"e", "b", "x">> -> Ok("Ebx")
               [] cpuid_register_str = <<"e", "c", "x">> -> Ok("Ecx")
               [] cpuid_register_str = <<"e", "d", "x">> -> Ok("Edx")
               [] OTHER -> SchemaError(
                    "Invalid CPUID register. Must be one of [eax, ebx, ecx, edx]")

CpuidRegisterModifier_deserialize(object) ==
    LET register == deserialize_cpuid_register(object.register)
        bitmap   == deserialize_u64_bitmap(object.bitmap)
    IN  IF IsErr(register) THEN register
        ELSE IF IsErr(bitmap) THEN bitmap
        ELSE finish_struct("CpuidRegisterModifier", object,
                           [register |-> register.val, bitmap |-> bitmap.val])

CpuidLeafModifier_deserialize(object) ==
    LET leaf      == deserialize_u32_from_str(object.leaf)
        subleaf   == deserialize_u32_from_str(object.subleaf)
        flags     == deserialize_kvm_cpuid_flags(object.flags)
        modifiers == collect([i \in 1..Len(object.modifiers) |->
                        CpuidRegisterModifier_deserialize(object.modifiers[i])])
    IN  IF ~IsOk(leaf) THEN leaf
        ELSE IF ~IsOk(subleaf) THEN subleaf
        ELSE IF IsErr(flags) THEN flags
        ELSE IF IsErr(modifiers) THEN modifiers
        ELSE finish_struct("CpuidLeafModifier", object,
                           [leaf |-> leaf.val, subleaf |-> subleaf.val,
                            flags |-> flags.val, modifiers |-> modifiers.val])

RegisterModifier_deserialize(object) ==
    LET addr   == deserialize_u32_from_str(object.addr)
        bitmap == deserialize_u64_bitmap(object.bitmap)
    IN  IF ~IsOk(addr) THEN addr
        ELSE IF IsErr(bitmap) THEN bitmap
        ELSE finish_struct("RegisterModifier", object,
                           [addr |-> addr.val, bitmap |-> bitmap.val])

\* #[serde(default)]: a list the document leaves out is empty.
CustomCpuTemplate_deserialize(object) ==
    LET cpuid_modifiers ==
            IF object.cpuid_modifiers.present
            THEN collect([i \in 1..Len(object.cpuid_modifiers.items) |->
                    CpuidLeafModifier_deserialize(object.cpuid_modifiers.items[i])])
            ELSE Ok(<<>>)
        msr_modifiers ==
            IF object.msr_modifiers.present
            THEN collect([i \in 1..Len(object.msr_modifiers.items) |->
                    RegisterModifier_deserialize(object.msr_modifiers.items[i])])
            ELSE Ok(<<>>)
    IN  IF ~IsOk(cpuid_modifiers) THEN cpuid_modifiers
        ELSE IF ~IsOk(msr_modifiers) THEN msr_modifiers
        ELSE finish_struct("CustomCpuTemplate", object,
                           [cpuid_modifiers |-> cpuid_modifiers.val,
                            msr_modifiers |-> msr_modifiers.val])

\* CustomCpuTemplate::get_msr_index_list
get_msr_index_list(self) ==
    [i \in 1..Len(self.msr_modifiers) |-> self.msr_modifiers[i].addr]

----------------------------------------------------------------------------
(* Inputs *)

\* Longest list of modifiers in an enumerated document.
MaxMods == 1

\* The bit positions the enumerated u64 values are built from: both ends of
\* the low 32-bit half and of the high half.
SampleBits == {0, 1, 31, 32, 63}

U64Samples == SUBSET SampleBits

Filters == {RegisterValueFilter(f, v) : f \in U64Samples, v \in U64Samples}

Repeat(c, n) == [i \in 1..n |-> c]

\* Texts of the repository's tests and of the boundaries of the parsers.
NumberTexts ==
    { <<"0", "x", "8", "0", "0", "0", "0", "0", "0", "1">>, <<"0", "b", "0", "0", "0", "1", "1", "1">>, <<"2", "0", "0">>, <<"0", "j", "j", "0">>,
      <<"4", "2", "9", "4", "9", "6", "7", "2", "9", "5">>, <<"4", "2", "9", "4", "9", "6", "7", "2", "9", "6">>, <<"0", "x", "f", "f", "f", "f", "f", "f", "f", "f">>, <<"0", "x", "1", "0", "0", "0", "0", "0", "0", "0", "0">>,
      <<"0", "x", "+", "1", "f">>, <<"0", "x", "U+20AC">>, <<"k", "U+00E9">> }

BitmapTexts ==
    { <<"0", "1", "0", "x">>,
      <<"0", "b", "x", "0", "0", "1", "0", "0", "x", "x", "x", "1", "x", "x", "x", "x", "0", "0", "x", "x", "x", "1", "x", "x", "x", "x", "x", "x", "x", "x", "x", "x", "x", "1">>, <<"0", "b", "x", "0", "?", "1", "0", "0", "x", "?", "x", "1", "x", "x", "x", "x", "0", "0", "x", "x", "x", "1", "x", "x", "x", "x", "x", "x", "x", "x", "x", "x", "x", "1">>, <<"0", "b", "x", "0", "0", "1", "0", "0", "x", "0", "x", "1", "x", "x", "x", "x", "0", "5", "x", "x", "x", "1", "x", "x", "x", "x", "x", "x", "x", "x", "x", "x", "x", "1">>,
      Repeat("1", 64), <<"0", "b">> \o Repeat("1", 64), Repeat("x", 64),
      Repeat("1", 65), <<"0">> \o Repeat("1", 64), <<"+">> \o Repeat("1", 64),
      <<"x">> \o Repeat("1", 64), <<"0", "b", "x", "x">> \o Repeat("0", 64),
      <<"0", "b", "+", "1", "x">>, <<"0", "b", "0", "b", "1">> }

Texts == StringsUpTo(MaxLen)

NumberInputs == {JsonString(t) : t \in Texts \cup NumberTexts} \cup {JsonNumber(7)}

BitmapInputs == {JsonString(t) : t \in Texts \cup BitmapTexts} \cup {JsonNumber(7)}

Vendors == {VENDOR_ID_INTEL, VENDOR_ID_AMD, "HygonGenuine"}

Hosts ==
    [vendor : {Ok(v) : v \in Vendors} \cup {Err("cpuid leaf 0x0 is not available")},
     cascade_lake : BOOLEAN]

\* enum StaticCpuTemplate
StaticCpuTemplate == {"C3", "T2", "T2S", "T2CL", "T2A", "None"}

CustomTemplates ==
    { CustomCpuTemplate_default,
      [cpuid_modifiers |-> <<>>,
       msr_modifiers |-> <<[addr |-> <<0, 512>>,
                            bitmap |-> RegisterValueFilter({0, 1}, {1})]>>] }

Selectors ==
    {NoTemplate} \cup {Custom(t) : t \in CustomTemplates}
        \cup {Static(t) : t \in StaticCpuTemplate}

SeqsUpTo(S, n) == UNION {[1..k -> S] : k \in 0..n}

UnknownFields == {{}, {"vendor"}}

RegObjects ==
    [register : {JsonString(<<"e", "a", "x">>)},
     bitmap : {JsonString(<<"0", "b", "1", "x">>), JsonString(<<"?">>)},
     unknown : {{}}]
    \cup
    [register : {JsonString(<<"e", "a", "x">>), JsonString(<<"e", "k", "x">>)},
     bitmap : {JsonString(<<"0", "b", "1", "x">>)},
     unknown : UnknownFields]

LeafObjects ==
    [leaf : {JsonString(<<"0", "x", "8", "0", "0", "0", "0", "0", "0", "1">>)}, subleaf : {JsonString(<<"0", "b", "0", "0", "0", "1", "1", "1">>)},
     flags : {JsonNumber(0)}, modifiers : SeqsUpTo(RegObjects, MaxMods),
     unknown : UnknownFields]
    \cup
    [leaf : {JsonString(<<"k">>)}, subleaf : {JsonString(<<"0", "b", "0", "0", "0", "1", "1", "1">>)},
     flags : {JsonNumber(0)}, modifiers : {<<>>}, unknown : {{}}]

MsrObjects ==
    [addr : {JsonString(<<"2", "0", "0">>)},
     bitmap : {JsonString(<<"0", "b", "x", "0", "0", "1", "0", "0", "x", "x", "x", "1", "x", "x", "x", "x", "0", "0", "x", "x", "x", "1", "x", "x", "x", "x", "x", "x", "x", "x", "x", "x", "x", "1">>), JsonString(<<"0", "b", "x", "0", "?", "1", "0", "0", "x", "?", "x", "1", "x", "x", "x", "x", "0", "0", "x", "x", "x", "1", "x", "x", "x", "x", "x", "x", "x", "x", "x", "x", "x", "1">>)},
     unknown : UnknownFields]
    \cup
    [addr : {JsonString(<<"0", "j", "j", "0">>)}, bitmap : {JsonString(<<"0", "b", "x", "0", "0", "1", "0", "0", "x", "x", "x", "1", "x", "x", "x", "x", "0", "0", "x", "x", "x", "1", "x", "x", "x", "x", "x", "x", "x", "x", "x", "x", "x", "1">>)}, unknown : {{}}]

Documents ==
    [cpuid_modifiers : {Absent} \cup {Present(l) : l \in SeqsUpTo(LeafObjects, MaxMods)},
     msr_modifiers : {Absent} \cup {Present(l) : l \in SeqsUpTo(MsrObjects, MaxMods)},
     unknown : UnknownFields]

----------------------------------------------------------------------------
(* State machine: each action is one call of one operation of the file.    *)
(* op names the last operation, arg its input, ret its outcome; origin is  *)
(* the (width, RegisterValueFilter) an encoded text came from, kept while  *)
(* that text is decoded; queries lists the host queries of a resolution.   *)
(* The operations share no state and keep none between calls, so a         *)
(* behaviour is one call on a fresh input, or one encoding followed by the *)
(* decoding of its output.                                                 *)

NoOrigin == [w |-> 0, fv |-> RegisterValueFilter({}, {})]

Origin(w, fv) == [w |-> w, fv |-> fv]

Init ==
    /\ op = "init"
    /\ arg = <<>>
    /\ ret = [kind |-> "None"]
    /\ origin = NoOrigin
    /\ queries = <<>>

SerializeU32Bitmap ==
    /\ op = "init"
    /\ \E bitmap \in Filters :
        /\ op' = "serialize_u32_bitmap"
        /\ arg' = bitmap
        /\ ret' = serialize_u32_bitmap(bitmap)
        /\ origin' = Origin(U32_BITS, bitmap)
        /\ queries' = <<>>

SerializeU64Bitmap ==
    /\ op = "init"
    /\ \E bitmap \in Filters :
        /\ op' = "serialize_u64_bitmap"
        /\ arg' = bitmap
        /\ ret' = serialize_u64_bitmap(bitmap)
        /\ origin' = Origin(U64_BITS, bitmap)
        /\ queries' = <<>>

\* The decoder is given a text of the caller ...
DeserializeU64Bitmap ==
    /\ op = "init"
    /\ \E json \in BitmapInputs :
        /\ op' = "deserialize_u64_bitmap"
        /\ arg' = json
        /\ ret' = deserialize_u64_bitmap(json)
        /\ origin' = NoOrigin
        /\ queries' = <<>>

\* ... or the text an encoder has just produced (test_serialization_lifecycle).
DeserializeEncoded ==
    /\ op \in {"serialize_u32_bitmap", "serialize_u64_bitmap"}
    /\ IsOk(ret)
    /\ op' = "deserialize_u64_bitmap"
    /\ arg' = JsonString(ret.val)
    /\ ret' = deserialize_u64_bitmap(JsonString(ret.val))
    /\ origin' = origin
    /\ queries' = <<>>

DeserializeU32FromStr ==
    /\ op = "init"
    /\ \E json \in NumberInputs :
        /\ op' = "deserialize_u32_from_str"
        /\ arg' = json
        /\ ret' = deserialize_u32_from_str(json)
        /\ origin' = NoOrigin
        /\ queries' = <<>>

Apply ==
    /\ op = "init"
    /\ \E self \in Filters, value \in U64Samples :
        /\ op' = "apply"
        /\ arg' = [self |-> self, value |-> value]
        /\ ret' = Ok(apply(self, value))
        /\ origin' = NoOrigin
        /\ queries' = <<>>

GetCpuTemplate ==
    /\ op = "init"
    /\ \E self \in Selectors, host \in Hosts :
        /\ op' = "get_cpu_template"
        /\ arg' = [self |-> self, host |-> host]
        /\ ret' = get_cpu_template(self, host).ret
        /\ queries' = get_cpu_template(self, host).queries
        /\ origin' = NoOrigin

FromStr ==
    /\ op = "init"
    /\ \E document \in Documents :
        /\ op' = "from_str"
        /\ arg' = document
        /\ ret' = CustomCpuTemplate_deserialize(document)
        /\ origin' = NoOrigin
        /\ queries' = <<>>

GetMsrIndexList ==
    /\ op = "init"
    /\ \E self \in CustomTemplates :
        /\ op' = "get_msr_index_list"
        /\ arg' = self
        /\ ret' = Ok(get_msr_index_list(self))
        /\ origin' = NoOrigin
        /\ queries' = <<>>

Next ==
    \/ SerializeU32Bitmap
    \/ SerializeU64Bitmap
    \/ DeserializeU64Bitmap
    \/ DeserializeEncoded
    \/ DeserializeU32FromStr
    \/ Apply
    \/ GetCpuTemplate
    \/ FromStr
    \/ GetMsrIndexList

Spec == Init /\ [][Next]_vars

----------------------------------------------------------------------------
(* Properties *)

\* The text of a bitmap after the one optional leading "0b" is dropped.
Stripped(s) == IF starts_with(s, <<"0", "b">>) THEN SubSeq(s, 3, Len(s)) ELSE s

\* fv uses only the low w bits.
UsesLowBits(fv, w) == \A b \in fv.filter \cup fv.value : b < w

\* The decoding of a text an encoder of width w produced from origin.fv.
DecodedEncoding(w) == op = "deserialize_u64_bitmap" /\ origin.w = w

\* C1, as stated: for w = 32 and w = 64 and every RegisterValueFilter fv
\* whose filter and value use only the low w bits, decoding the text the
\* w-bit encoder produced from fv succeeds and yields exactly fv.
C1_RoundTripAnyValue ==
    \A w \in {U32_BITS, U64_BITS} :
        DecodedEncoding(w) /\ UsesLowBits(origin.fv, w) => ret = Ok(origin.fv)

\* C1, amended: for w = 32 and w = 64 and every RegisterValueFilter fv whose
\* filter and value use only the low w bits and whose value has no bit set
\* outside its filter, decoding the text the w-bit encoder produced from fv
\* succeeds and yields exactly fv.
C1_RoundTrip ==
    \A w \in {U32_BITS, U64_BITS} :
        DecodedEncoding(w) /\ UsesLowBits(origin.fv, w)
            /\ origin.fv.value \subseteq origin.fv.filter
        => ret = Ok(origin.fv)

C1_Witness ==
    /\ DecodedEncoding(U64_BITS)
    /\ origin.fv = RegisterValueFilter({0, 32, 63}, {0, 63})
    /\ ret = Ok(origin.fv)

\* C2: whenever the text given to deserialize_u64_bitmap, after one optional
\* leading "0b" is dropped, has a character outside {'0', '1', 'x'}, the
\* decoder returns an error, and the error carries that text without "0b".
C2_MalformedBitmapRejected ==
    op = "deserialize_u64_bitmap" /\ arg.type = "string"
        /\ (\E i \in 1..Len(Stripped(arg.str)) :
                Stripped(arg.str)[i] \notin {"0", "1", "x"})
    => IsErr(ret) /\ ret.msg.text = Stripped(arg.str)

\* C3, as stated: resolving Some(Static(None)) returns
\* InvalidStaticCpuTemplate(None) on every host, also on one whose vendor
\* query fails.
C3_SentinelAlwaysInvalid ==
    op = "get_cpu_template" /\ arg.self = Static("None")
    => ret = Err(InvalidStaticCpuTemplate("None"))

\* C3, amended: resolving Some(Static(None)) returns
\* InvalidStaticCpuTemplate(None) on every host whose vendor query succeeds,
\* whatever the vendor and the CPU model, and the GetCpuVendor error of the
\* failed query on a host whose vendor query fails; it never returns a
\* template.
C3_SentinelInvalid ==
    op = "get_cpu_template" /\ arg.self = Static("None")
    => /\ IsOk(arg.host.vendor) => ret = Err(InvalidStaticCpuTemplate("None"))
       /\ IsErr(arg.host.vendor) => ret = Err(GetCpuVendor(arg.host.vendor.msg))

C3_Witness ==
    /\ op = "get_cpu_template"
    /\ arg.self = Static("None")
    /\ arg.host = [vendor |-> Ok(VENDOR_ID_AMD), cascade_lake |-> TRUE]
    /\ ret = Err(InvalidStaticCpuTemplate("None"))

\* A document carries a field outside the recognized set at some level.
HasUnknownField(document) ==
    \/ document.unknown # {}
    \/ \E i \in 1..Len(document.cpuid_modifiers.items) :
        LET leaf_mod == document.cpuid_modifiers.items[i]
        IN  \/ leaf_mod.unknown # {}
            \/ \E j \in 1..Len(leaf_mod.modifiers) : leaf_mod.modifiers[j].unknown # {}
    \/ \E i \in 1..Len(document.msr_modifiers.items) :
        document.msr_modifiers.items[i].unknown # {}

\* C4: decoding a document into a CustomCpuTemplate fails whenever a field
\* outside the recognized set appears in the top-level object, in a cpuid
\* leaf modifier, in a per-register modifier or in an MSR modifier.
C4_UnknownFieldRejected ==
    op = "from_str" /\ HasUnknownField(arg) => IsErr(ret)

\* C5: deserialize_u32_from_str and deserialize_u64_bitmap end, on every
\* input, by returning a value or a typed error, never by unwinding.
C5_DecodersNeverUnwind ==
    op \in {"deserialize_u32_from_str", "deserialize_u64_bitmap"}
    => ret.kind \in {"Ok", "Err"}

\* text is "0b" followed by exactly width characters of {'0', '1', 'x'}.
IsBitmapText(text, width) ==
    /\ Len(text) = width + 2
    /\ starts_with(text, <<"0", "b">>)
    /\ \A i \in 3..Len(text) : text[i] \in {"0", "1", "x"}

\* C6: for every RegisterValueFilter, serialize_u32_bitmap completes with a
\* text of exactly 34 characters and serialize_u64_bitmap with one of
\* exactly 66, each "0b" followed by characters of {'0', '1', 'x'}.
C6_FixedEncodedWidth ==
    /\ op = "serialize_u32_bitmap" => IsOk(ret) /\ IsBitmapText(ret.val, 32)
    /\ op = "serialize_u64_bitmap" => IsOk(ret) /\ IsBitmapText(ret.val, 64)

\* The parse the numeric parser is to choose for a text, by its characters.
ChosenParse(text) ==
    IF Len(text) > 2 /\ starts_with(text, <<"0", "b">>)
    THEN u32_from_str_radix(SubSeq(text, 3, Len(text)), 2)
    ELSE IF Len(text) > 2 /\ starts_with(text, <<"0", "x">>)
    THEN u32_from_str_radix(SubSeq(text, 3, Len(text)), 16)
    ELSE u32_from_str_radix(text, 10)

\* C7: deserialize_u32_from_str parses what follows the first two characters
\* in base 2 for a text longer than 2 that starts with "0b", in base 16 for
\* one that starts with "0x", and the whole text in base 10 otherwise; it
\* returns the value when that parse succeeds and otherwise an error that
\* carries the whole text.
C7_RadixSelection ==
    op = "deserialize_u32_from_str" /\ arg.type = "string"
    => IF IsOk(ChosenParse(arg.str))
       THEN ret = ChosenParse(arg.str)
       ELSE IsErr(ret) /\ ret.msg.text = arg.str

\* A resolution of a named template on a host whose vendor query succeeded.
ResolvedNamed(id) ==
    op = "get_cpu_template" /\ arg.self = Static(id) /\ IsOk(arg.host.vendor)

\* The predefined template of a named id.
Predefined(id) ==
    CASE id = "C3" -> c3 [] id = "T2" -> t2 [] id = "T2S" -> t2s
      [] id = "T2CL" -> t2cl [] id = "T2A" -> t2a

\* The vendor a named id requires.
RequiredVendor(id) == IF id = "T2A" THEN VENDOR_ID_AMD ELSE VENDOR_ID_INTEL

\* C8: when the vendor query succeeds, C3, T2, T2S and T2CL on a host that
\* is not Intel, and T2A on a host that is not AMD, resolve to
\* CpuVendorMismatched; C3, T2 and T2S on Intel and T2A on AMD resolve to the
\* owned predefined template of that id; no named template is returned on a
\* host of another vendor than the one it requires.
C8_VendorGating ==
    \A id \in {"C3", "T2", "T2S", "T2CL", "T2A"} :
        ResolvedNamed(id)
        => /\ arg.host.vendor.val # RequiredVendor(id)
                => ret = Err(CpuVendorMismatched)
           /\ arg.host.vendor.val = RequiredVendor(id) /\ id # "T2CL"
                => ret = Ok(Owned(Predefined(id)))
           /\ IsOk(ret) => arg.host.vendor.val = RequiredVendor(id)

C8_Witness ==
    /\ ResolvedNamed("T2A")
    /\ arg.host.vendor.val = VENDOR_ID_INTEL
    /\ ret = Err(CpuVendorMismatched)

\* C9: T2CL resolves to CpuVendorMismatched on every host that is not Intel,
\* whatever its model, to InvalidCpuModel on an Intel host below Cascade
\* Lake and to the owned predefined T2CL template on an Intel host at or
\* above it; InvalidCpuModel is returned for T2CL on Intel hosts only.
C9_ModelGating ==
    /\ ResolvedNamed("T2CL")
       => ret = IF arg.host.vendor.val # VENDOR_ID_INTEL
                THEN Err(CpuVendorMismatched)
                ELSE IF ~arg.host.cascade_lake THEN Err(InvalidCpuModel)
                ELSE Ok(Owned(t2cl))
    /\ op = "get_cpu_template" /\ ret = Err(InvalidCpuModel)
       => arg.self = Static("T2CL") /\ arg.host.vendor = Ok(VENDOR_ID_INTEL)

C9_Witness ==
    /\ ResolvedNamed("T2CL")
    /\ arg.host = [vendor |-> Ok(VENDOR_ID_INTEL), cascade_lake |-> FALSE]
    /\ ret = Err(InvalidCpuModel)

\* C10: no selector resolves to an owned empty template and custom(doc) to a
\* borrowed doc, unchanged; neither fails nor makes a host query, whatever
\* the host, also one whose vendor query would fail.
C10_HostIndependent ==
    op = "get_cpu_template"
    => /\ arg.self.tag = "None"
            => ret = Ok(Owned([cpuid_modifiers |-> <<>>, msr_modifiers |-> <<>>]))
                /\ queries = <<>>
       /\ arg.self.tag = "Custom"
            => ret = Ok(Borrowed(arg.self.custom)) /\ queries = <<>>

C10_Witness ==
    /\ op = "get_cpu_template"
    /\ arg.self.tag = "Custom"
    /\ arg.self.custom # CustomCpuTemplate_default
    /\ IsErr(arg.host.vendor)
    /\ ret = Ok(Borrowed(arg.self.custom))
    /\ queries = <<>>

\* The bit positions of a 64-bit word.
Bits == 0..(U64_BITS - 1)

\* C11: for every RegisterValueFilter fv and every 64-bit original o,
\* fv.apply(o) is (o AND NOT fv.filter) OR fv.value: bit by bit over the 64
\* positions, a bit of the result is set exactly when it is set in o and
\* clear in fv.filter, or set in fv.value.
C11_ApplyFormula ==
    op = "apply"
    => /\ ret.val \subseteq Bits
       /\ \A b \in Bits :
            b \in ret.val
                <=> ((b \in arg.value /\ b \notin arg.self.filter)
                        \/ b \in arg.self.value)

C11_Witness ==
    /\ op = "apply"
    /\ arg.self = RegisterValueFilter({0, 63}, {63})
    /\ arg.value = {0, 1, 32}
    /\ ret = Ok({1, 32, 63})

\* C12, as stated: for every RegisterValueFilter fv and every 64-bit o, each
\* bit position not set in fv.filter has the same bit in fv.apply(o) as in
\* o, and each position set in fv.filter has the bit of fv.value.
C12_OnlyFilteredBitsChange ==
    op = "apply"
    => \A b \in Bits :
        /\ b \notin arg.self.filter => (b \in ret.val <=> b \in arg.value)
        /\ b \in arg.self.filter => (b \in ret.val <=> b \in arg.self.value)

\* C12, amended: for every RegisterValueFilter fv whose value has no bit set
\* outside its filter and every 64-bit o, each bit position not set in
\* fv.filter has the same bit in fv.apply(o) as in o, and each position set
\* in fv.filter has the bit of fv.value.
C12_OnlyFilteredBitsChangeWithinFilter ==
    op = "apply" /\ arg.self.value \subseteq arg.self.filter
    => \A b \in Bits :
        /\ b \notin arg.self.filter => (b \in ret.val <=> b \in arg.value)
        /\ b \in arg.self.filter => (b \in ret.val <=> b \in arg.self.value)

C12_Witness ==
    /\ op = "apply"
    /\ arg.self = RegisterValueFilter({1, 31, 32}, {32})
    /\ arg.value = {0, 1, 63}
    /\ ret = Ok({0, 32, 63})

\* C13: for every text deserialize_u64_bitmap accepts, the text after the
\* optional "0b" has n characters of {'0', '1', 'x'}; with the leftmost
\* character as bit n-1, the filter bit is set exactly where the character
\* is '0' or '1' and the value bit exactly where it is '1', every higher bit
\* is clear, and so no value bit lies outside the filter.
C13_PerPositionDecoding ==
    op = "deserialize_u64_bitmap" /\ arg.type = "string" /\ IsOk(ret)
    => LET text == Stripped(arg.str)
           n    == Len(text)
       IN  /\ \A i \in 1..n : text[i] \in {"0", "1", "x"}
           /\ \A i \in 1..n :
                /\ (n - i) \in ret.val.filter <=> text[i] \in {"0", "1"}
                /\ (n - i) \in ret.val.value <=> text[i] = "1"
           /\ \A b \in ret.val.filter \cup ret.val.value : b < n
           /\ ret.val.value \subseteq ret.val.filter

====
